---- MODULE Spec2Model ----
(***************************************************************************)
(* A model of arrow2's ListArray<O> (src/src/array/list/mod.rs): the       *)
(* validated constructors, slicing and element access.                     *)
(*                                                                         *)
(* Buffers are modelled as (buf, offset, length) windows over an immutable *)
(* backing sequence, so that slicing is a change of window and never a     *)
(* copy.  usize is modelled as an unsigned integer of UsizeBits bits.      *)
(***************************************************************************)
EXTENDS Integers, Sequences, FiniteSets, TLC

(* ------------------------------ bounds -------------------------------- *)
\* largest number of list elements of a constructed array
MaxLen == 2
\* largest length of the child values array
MaxValues == 2
\* width of usize in bits (scaled down from 64)
UsizeBits == 6

UsizeMod == 2 ^ UsizeBits
UsizeMax == UsizeMod - 1

(* ----------------------------- data types ----------------------------- *)
\* A DataType is a record: kind is the logical type, ext tells whether it is
\* wrapped in DataType::Extension, and (name, child, is_nullable) is the
\* child Field of a List / LargeList ("-" for a type without a child).
LeafKinds == {"Int16", "Int32"}

Leaf(k) == [ext |-> FALSE, kind |-> k, name |-> "-", child |-> "-", is_nullable |-> FALSE]

ListOf(kind, name, child, nullable) ==
    [ext |-> FALSE, kind |-> kind, name |-> name, child |-> child, is_nullable |-> nullable]

Extension(dt) == [dt EXCEPT !.ext = TRUE]

\* the child fields tried: the default field ("item", nullable) and a field
\* of another name, type and nullability
Fields ==
    { <<"item", "Int16", TRUE>>, <<"elem", "Int32", FALSE>> }

\* the data types tried: a type that is no list, List over each field,
\* LargeList, and an Extension over a List
DataTypes ==
    { Leaf("Int16") }
      \cup { ListOf("List", f[1], f[2], f[3]) : f \in Fields }
      \cup { ListOf("LargeList", "item", "Int16", TRUE) }
      \cup { Extension(ListOf("List", "item", "Int16", TRUE)) }

\* DataType::to_logical_type: strips the Extension wrapper
to_logical_type(dt) == [dt EXCEPT !.ext = FALSE]

\* Field::data_type of the child field of a list type
field_data_type(dt) == Leaf(dt.child)

(* ------------------------------ buffers ------------------------------- *)
RECURSIVE CountUnset(_)
CountUnset(s) ==
    IF s = <<>> THEN 0
    ELSE (IF Head(s) THEN 0 ELSE 1) + CountUnset(Tail(s))

\* the elements of a window, in order
View(w) == SubSeq(w.buf, w.offset + 1, w.offset + w.length)

\* Bitmap: bit buffer, bit offset, bit length and the cached unset-bit count
BitmapFrom(bits) ==
    [buf |-> bits, offset |-> 0, length |-> Len(bits), unset_bits |-> CountUnset(bits)]

\* Bitmap::new_zeroed(length)
Bitmap_new_zeroed(length) == BitmapFrom([i \in 1..length |-> FALSE])

\* Bitmap::slice_unchecked(offset, length): moves the window and recounts
Bitmap_slice_unchecked(b, offset, length) ==
    [buf |-> b.buf, offset |-> b.offset + offset, length |-> length,
     unset_bits |-> CountUnset(SubSeq(b.buf, b.offset + offset + 1, b.offset + offset + length))]

\* Option<Bitmap>
None == [is_some |-> FALSE, bitmap |-> BitmapFrom(<<>>)]
Some(b) == [is_some |-> TRUE, bitmap |-> b]

\* OffsetsBuffer<O>: a window over a non-empty, non-decreasing sequence
OffsetsFrom(s) == [buf |-> s, offset |-> 0, length |-> Len(s)]

\* OffsetsBuffer::default(): the single offset 0
OffsetsBuffer_default == OffsetsFrom(<<0>>)

\* Offsets::new_zeroed(length): length + 1 zeros
Offsets_new_zeroed(length) == OffsetsFrom([i \in 1..(length + 1) |-> 0])

\* OffsetsBuffer::len_proxy
len_proxy(o) == o.length - 1

\* OffsetsBuffer::last
last(o) == o.buf[o.offset + o.length]

\* OffsetsBuffer::start_end_unchecked(i)
start_end_unchecked(o, i) == <<o.buf[o.offset + i + 1], o.buf[o.offset + i + 2]>>

\* OffsetsBuffer::slice_unchecked(offset, length)
Offsets_slice_unchecked(o, offset, length) ==
    [buf |-> o.buf, offset |-> o.offset + offset, length |-> length]

(* ---------------------------- child arrays ---------------------------- *)
\* The child array: its data type and its elements; element j carries the
\* value j so that a window of the child identifies its position.
ChildArray(k, n) == [data_type |-> Leaf(k), data |-> [j \in 1..n |-> j]]

\* new_empty_array(data_type)
new_empty_array(dt) == [data_type |-> dt, data |-> <<>>]

\* Array::sliced_unchecked(start, length) of the child
sliced_unchecked(a, start, length) ==
    [data_type |-> a.data_type, data |-> SubSeq(a.data, start + 1, start + length)]

(* ------------------------- constructor inputs ------------------------- *)
IsSorted(s) == \A i \in 1..(Len(s) - 1) : s[i] <= s[i + 1]

SeqsUpTo(S, lo, hi) == UNION { [1..n -> S] : n \in lo..hi }

\* every OffsetsBuffer of at most MaxLen elements over 0..MaxValues; the last
\* offset may exceed the length of the child that is passed with it
OffsetsInputs ==
    { OffsetsFrom(s) : s \in { t \in SeqsUpTo(0..MaxValues, 1, MaxLen + 1) : IsSorted(t) } }

ValuesInputs == { ChildArray(k, n) : k \in LeafKinds, n \in 0..MaxValues }

ValidityInputs ==
    {None} \cup { Some(BitmapFrom(s)) : s \in SeqsUpTo(BOOLEAN, 0, MaxLen) }

Args ==
    [data_type : DataTypes, offsets : OffsetsInputs, values : ValuesInputs,
     validity : ValidityInputs]

(* ------------------------------- state -------------------------------- *)
VARIABLES
    IS_LARGE,   \* Offset::IS_LARGE of the type parameter O (i64 iff TRUE)
    args,       \* the arguments handed to try_new / new
    pc,         \* "start", "ok", "err" (Err returned), "panic", "ub"
    err,        \* which check produced the Err / panic of a constructor
    arr,        \* the ListArray
    op,         \* the last operation and its arguments
    res,        \* the array returned by value(i)
    page,       \* a call of array_to_page_v1: its arguments and its result
    nat         \* a NativeType value and the result of the last operation on it

vars == <<IS_LARGE, args, pc, err, arr, op, res, page, nat>>

NoArray ==
    [data_type |-> Leaf("Int16"), offsets |-> OffsetsBuffer_default,
     values |-> new_empty_array(Leaf("Int16")), validity |-> None]

NoOp == [name |-> "none", offset |-> 0, length |-> 0]
NoRes == new_empty_array(Leaf("Int16"))

\* no call of array_to_page_v1 and no NativeType value under way
NoPage == [pc |-> "none"]
NoNat == [pc |-> "none"]

(* ---------------------------- constructors ---------------------------- *)
\* try_check_offsets_bounds(offsets, values_len)
try_check_offsets_bounds(offsets, values_len) ==
    IF last(offsets) > values_len THEN "offsets must not exceed the values length" ELSE "Ok"

\* ListArray::try_get_child: "Ok" or the error
try_get_child(large, dt) ==
    IF large
    THEN IF to_logical_type(dt).kind = "LargeList" THEN "Ok"
         ELSE "ListArray<i64> expects DataType::LargeList"
    ELSE IF to_logical_type(dt).kind = "List" THEN "Ok"
         ELSE "ListArray<i32> expects DataType::List"

\* try_new that ignores the result of the offsets bounds check
try_new_bounds_ignored(large, data_type, offsets, values, validity) ==
    IF validity.is_some /\ validity.bitmap.length # len_proxy(offsets)
    THEN <<"validity mask length must match the number of values", NoArray>>
    ELSE IF try_get_child(large, data_type) # "Ok"
    THEN <<try_get_child(large, data_type), NoArray>>
    ELSE IF field_data_type(to_logical_type(data_type)) # values.data_type
    THEN <<"ListArray's child's DataType must match", NoArray>>
    ELSE <<"Ok", [data_type |-> data_type, offsets |-> offsets,
                  values |-> values, validity |-> validity]>>

\* try_new that compares the validity length with offsets.len(), as its
\* documentation words it, instead of offsets.len_proxy()
try_new_validity_vs_len(large, data_type, offsets, values, validity) ==
    IF try_check_offsets_bounds(offsets, Len(values.data)) # "Ok"
    THEN <<try_check_offsets_bounds(offsets, Len(values.data)), NoArray>>
    ELSE IF validity.is_some /\ validity.bitmap.length # offsets.length
    THEN <<"validity mask length must match the number of values", NoArray>>
    ELSE IF try_get_child(large, data_type) # "Ok"
    THEN <<try_get_child(large, data_type), NoArray>>
    ELSE IF field_data_type(to_logical_type(data_type)) # values.data_type
    THEN <<"ListArray's child's DataType must match", NoArray>>
    ELSE <<"Ok", [data_type |-> data_type, offsets |-> offsets,
                  values |-> values, validity |-> validity]>>

\* try_new that does not compare the child field's type with the values' type
try_new_child_unchecked(large, data_type, offsets, values, validity) ==
    IF try_check_offsets_bounds(offsets, Len(values.data)) # "Ok"
    THEN <<try_check_offsets_bounds(offsets, Len(values.data)), NoArray>>
    ELSE IF validity.is_some /\ validity.bitmap.length # len_proxy(offsets)
    THEN <<"validity mask length must match the number of values", NoArray>>
    ELSE IF try_get_child(large, data_type) # "Ok"
    THEN <<try_get_child(large, data_type), NoArray>>
    ELSE <<"Ok", [data_type |-> data_type, offsets |-> offsets,
                  values |-> values, validity |-> validity]>>

\* try_new that resolves the child field before it checks the validity
try_new_child_first(large, data_type, offsets, values, validity) ==
    IF try_check_offsets_bounds(offsets, Len(values.data)) # "Ok"
    THEN <<try_check_offsets_bounds(offsets, Len(values.data)), NoArray>>
    ELSE IF try_get_child(large, data_type) # "Ok"
    THEN <<try_get_child(large, data_type), NoArray>>
    ELSE IF validity.is_some /\ validity.bitmap.length # len_proxy(offsets)
    THEN <<"validity mask length must match the number of values", NoArray>>
    ELSE IF field_data_type(to_logical_type(data_type)) # values.data_type
    THEN <<"ListArray's child's DataType must match", NoArray>>
    ELSE <<"Ok", [data_type |-> data_type, offsets |-> offsets,
                  values |-> values, validity |-> validity]>>

\* ListArray::try_new: <<"Ok", array>> or <<error, NoArray>>
try_new(large, data_type, offsets, values, validity) ==
    IF try_check_offsets_bounds(offsets, Len(values.data)) # "Ok"
    THEN <<try_check_offsets_bounds(offsets, Len(values.data)), NoArray>>
    ELSE IF validity.is_some /\ validity.bitmap.length # len_proxy(offsets)
    THEN <<"validity mask length must match the number of values", NoArray>>
    ELSE IF try_get_child(large, data_type) # "Ok"
    THEN <<try_get_child(large, data_type), NoArray>>
    ELSE IF field_data_type(to_logical_type(data_type)) # values.data_type
    THEN <<"ListArray's child's DataType must match", NoArray>>
    ELSE <<"Ok", [data_type |-> data_type, offsets |-> offsets,
                  values |-> values, validity |-> validity]>>

Init ==
    /\ IS_LARGE \in BOOLEAN
    /\ args \in Args
    /\ pc = "start"
    /\ err = "Ok"
    /\ arr = NoArray
    /\ op = NoOp
    /\ res = NoRes
    /\ page = NoPage
    /\ nat = NoNat

TryNew ==
    /\ pc = "start"
    /\ LET r == try_new(IS_LARGE, args.data_type, args.offsets, args.values, args.validity)
       IN /\ pc' = IF r[1] = "Ok" THEN "ok" ELSE "err"
          /\ err' = r[1]
          /\ arr' = r[2]
    /\ op' = [NoOp EXCEPT !.name = "try_new"]
    /\ UNCHANGED <<IS_LARGE, args, res, page, nat>>

\* ListArray::new: try_new(...).unwrap()
New ==
    /\ pc = "start"
    /\ LET r == try_new(IS_LARGE, args.data_type, args.offsets, args.values, args.validity)
       IN /\ pc' = IF r[1] = "Ok" THEN "ok" ELSE "panic"
          /\ err' = r[1]
          /\ arr' = r[2]
    /\ op' = [NoOp EXCEPT !.name = "new"]
    /\ UNCHANGED <<IS_LARGE, args, res, page, nat>>

\* ListArray::get_child_type: get_child_field(data_type).data_type(), where
\* get_child_field unwraps try_get_child
get_child_type(large, dt) ==
    IF try_get_child(large, dt) = "Ok"
    THEN <<"Ok", field_data_type(to_logical_type(dt))>>
    ELSE <<try_get_child(large, dt), Leaf("Int16")>>

\* ListArray::new_empty
new_empty(large, data_type) ==
    IF get_child_type(large, data_type)[1] # "Ok"
    THEN <<get_child_type(large, data_type)[1], NoArray>>
    ELSE try_new(large, data_type, OffsetsBuffer_default,
                 new_empty_array(get_child_type(large, data_type)[2]), None)

\* new_null that attaches no validity
new_null_without_validity(large, data_type, length) ==
    IF get_child_type(large, data_type)[1] # "Ok"
    THEN <<get_child_type(large, data_type)[1], NoArray>>
    ELSE try_new(large, data_type, Offsets_new_zeroed(length),
                 new_empty_array(get_child_type(large, data_type)[2]), None)

\* ListArray::new_null
new_null(large, data_type, length) ==
    IF get_child_type(large, data_type)[1] # "Ok"
    THEN <<get_child_type(large, data_type)[1], NoArray>>
    ELSE try_new(large, data_type, Offsets_new_zeroed(length),
                 new_empty_array(get_child_type(large, data_type)[2]),
                 Some(Bitmap_new_zeroed(length)))

NewEmpty ==
    /\ pc = "start"
    /\ LET r == new_empty(IS_LARGE, args.data_type)
       IN /\ pc' = IF r[1] = "Ok" THEN "ok" ELSE "panic"
          /\ err' = r[1]
          /\ arr' = r[2]
          /\ args' = [r[2] EXCEPT !.data_type = args.data_type]
    /\ op' = [NoOp EXCEPT !.name = "new_empty"]
    /\ UNCHANGED <<IS_LARGE, res, page, nat>>

NewNull ==
    /\ pc = "start"
    /\ \E length \in 0..MaxLen :
          LET r == new_null(IS_LARGE, args.data_type, length)
          IN /\ pc' = IF r[1] = "Ok" THEN "ok" ELSE "panic"
             /\ err' = r[1]
             /\ arr' = r[2]
             /\ args' = [r[2] EXCEPT !.data_type = args.data_type]
             /\ op' = [NoOp EXCEPT !.name = "new_null", !.length = length]
    /\ UNCHANGED <<IS_LARGE, res, page, nat>>

(* ------------------------------ accessors ----------------------------- *)
\* ListArray::len
len(a) == len_proxy(a.offsets)

\* value_unchecked that slices the child from its beginning
value_unchecked_from_zero(a, i) ==
    LET start == start_end_unchecked(a.offsets, i)[1]
        end   == start_end_unchecked(a.offsets, i)[2]
        length == end - start
    IN sliced_unchecked(a.values, 0, length)

\* ListArray::value_unchecked
value_unchecked(a, i) ==
    LET start == start_end_unchecked(a.offsets, i)[1]
        end   == start_end_unchecked(a.offsets, i)[2]
        length == end - start
    IN sliced_unchecked(a.values, start, length)

\* ListArray::value: <<"ok", element>> or <<"panic", _>>
value(a, i) ==
    IF i < len(a) THEN <<"ok", value_unchecked(a, i)>> ELSE <<"panic", NoRes>>

(* ------------------------------- slicing ------------------------------ *)
\* slice_unchecked that keeps length offsets instead of length + 1
slice_unchecked_one_offset_short(a, offset, length) ==
    LET bitmap == Bitmap_slice_unchecked(a.validity.bitmap, offset, length)
    IN [a EXCEPT
          !.validity = IF a.validity.is_some THEN Some(bitmap) ELSE None,
          !.offsets  = Offsets_slice_unchecked(a.offsets, offset, length)]

\* slice_unchecked that leaves the validity as it was
slice_unchecked_validity_kept(a, offset, length) ==
    [a EXCEPT !.offsets = Offsets_slice_unchecked(a.offsets, offset, length + 1)]

\* slice_unchecked that copies the offsets window into a buffer of its own
slice_unchecked_copying(a, offset, length) ==
    LET bitmap == Bitmap_slice_unchecked(a.validity.bitmap, offset, length)
    IN [a EXCEPT
          !.validity = IF a.validity.is_some THEN Some(bitmap) ELSE None,
          !.offsets  = OffsetsFrom(View(Offsets_slice_unchecked(a.offsets, offset, length + 1)))]

\* variant: the Option produced by and_then is assigned, so that a window
\* without unset bits loses its validity
slice_unchecked_dropping(a, offset, length) ==
    LET bitmap  == Bitmap_slice_unchecked(a.validity.bitmap, offset, length)
        dropped == IF a.validity.is_some /\ bitmap.unset_bits > 0 THEN Some(bitmap) ELSE None
    IN [a EXCEPT
          !.validity = dropped,
          !.offsets  = Offsets_slice_unchecked(a.offsets, offset, length + 1)]

\* ListArray::slice_unchecked.  The Option produced by and_then is dropped:
\* the bitmap is sliced in place and stays attached.
slice_unchecked(a, offset, length) ==
    LET bitmap  == Bitmap_slice_unchecked(a.validity.bitmap, offset, length)
        dropped == IF a.validity.is_some /\ bitmap.unset_bits > 0 THEN Some(bitmap) ELSE None
    IN [a EXCEPT
          !.validity = IF a.validity.is_some THEN Some(bitmap) ELSE None,
          !.offsets  = Offsets_slice_unchecked(a.offsets, offset, length + 1)]

\* ListArray::slice: the set of outcomes <<pc, array>>.  offset + length is a
\* usize addition: on overflow a build with overflow checks panics, and a
\* build without them wraps, so that the assertion can pass and
\* slice_unchecked is entered with its precondition violated (undefined
\* behaviour; the array is not meaningful afterwards).
slice(a, offset, length) ==
    IF offset + length > UsizeMax
    THEN {<<"panic", a>>}
           \cup (IF (offset + length) % UsizeMod <= len(a)
                 THEN {<<"ub", a>>} ELSE {<<"panic", a>>})
    ELSE IF offset + length <= len(a)
    THEN {<<"ok", slice_unchecked(a, offset, length)>>}
    ELSE {<<"panic", a>>}

\* the usize arguments tried by the operations
UsizeInputs == (0..MaxLen) \cup {UsizeMax}

\* slice(&mut self, offset, length).  sliced(self, offset, length) of
\* impl_sliced! is this same step taken on the moved header: the buffers stay
\* shared with every clone of the array as it was before.
Slice ==
    /\ pc = "ok"
    /\ \E offset \in UsizeInputs, length \in UsizeInputs :
         /\ \E r \in slice(arr, offset, length) :
               /\ pc' = r[1]
               /\ arr' = r[2]
         /\ op' = [name |-> "slice", offset |-> offset, length |-> length]
    /\ res' = NoRes
    /\ UNCHANGED <<IS_LARGE, args, err, page, nat>>

Value ==
    /\ pc = "ok"
    /\ \E i \in UsizeInputs :
         /\ pc' = value(arr, i)[1]
         /\ res' = value(arr, i)[2]
         /\ op' = [name |-> "value", offset |-> i, length |-> 0]
    /\ UNCHANGED <<IS_LARGE, args, err, arr, page, nat>>

Next ==
    \/ TryNew
    \/ New
    \/ NewEmpty
    \/ NewNull
    \/ Slice
    \/ Value

Spec == Init /\ [][Next]_vars

(* =============================== claims =============================== *)
\* the constructor arguments, as the claims speak of them
ArgLastOffset == View(args.offsets)[Len(View(args.offsets))]
ArgValuesLen == Len(args.values.data)
ArgElements == Len(View(args.offsets)) - 1
ArgValidityMismatch == args.validity.is_some /\ args.validity.bitmap.length # ArgElements
ArgListWidthOk ==
    /\ args.data_type.kind = (IF IS_LARGE THEN "LargeList" ELSE "List")
ArgChildMismatch == Leaf(args.data_type.child) # args.values.data_type

BoundsError == "offsets must not exceed the values length"
ValidityError == "validity mask length must match the number of values"
WidthError ==
    IF IS_LARGE THEN "ListArray<i64> expects DataType::LargeList"
    ELSE "ListArray<i32> expects DataType::List"
ChildError == "ListArray's child's DataType must match"

C3_ErrOnChildTypeElseExact ==
    op.name = "try_new" =>
        /\ pc \in {"ok", "err"}
        /\ (args.data_type.kind \in {"List", "LargeList"} /\ ArgChildMismatch) => pc = "err"
        /\ ( /\ ArgLastOffset <= ArgValuesLen
             /\ ~ArgValidityMismatch
             /\ ArgListWidthOk
             /\ ~ArgChildMismatch )
           => (pc = "ok" /\ arr = args)

C3_Witness ==
    /\ op.name = "try_new"
    /\ ArgListWidthOk
    /\ ArgChildMismatch
    /\ err = ChildError
    /\ pc = "err"

\* the error of the earliest violated check, in the order bounds, validity
\* length, list width, child type
EarliestViolation ==
    IF ArgLastOffset > ArgValuesLen THEN BoundsError
    ELSE IF ArgValidityMismatch THEN ValidityError
    ELSE IF ~ArgListWidthOk THEN WidthError
    ELSE IF ArgChildMismatch THEN ChildError
    ELSE "Ok"

\* C4: try_new runs its checks in the order (1) offsets bounds, (2) validity
\* length, (3) data_type is List for 32-bit and LargeList for 64-bit offsets,
\* (4) child field type; the error returned is the one of the earliest
\* violated check, and a data_type of the wrong list width is rejected even
\* if every other check passes.
C4_EarliestCheckWins ==
    op.name = "try_new" =>
        /\ err = EarliestViolation
        /\ (pc = "err") = (err # "Ok")
        /\ ~ArgListWidthOk => pc = "err"

C4_Witness ==
    /\ op.name = "try_new"
    /\ ArgValidityMismatch
    /\ ~ArgListWidthOk
    /\ ArgLastOffset <= ArgValuesLen
    /\ err = ValidityError

\* the offsets and the child values an array shows
Offs(a) == View(a.offsets)
IsSliceOp(o) == o.name = "slice"
InRange(a, o) == o.offset + o.length <= Len(Offs(a)) - 1

\* C5: for every validly constructed ListArray, also after in-range slices,
\* and every i < len(): value(i) has length offsets[i+1] - offsets[i] and is
\* the window of the child values starting at offsets[i]; value(i) panics iff
\* i >= len().
C5_ValueIsChildWindow ==
    op.name = "value" =>
        LET i == op.offset
        IN IF i < Len(Offs(arr)) - 1
           THEN /\ pc = "ok"
                /\ Len(res.data) = Offs(arr)[i + 2] - Offs(arr)[i + 1]
                /\ \A j \in 1..Len(res.data) : res.data[j] = arr.values.data[Offs(arr)[i + 1] + j]
                /\ res.data_type = arr.values.data_type
           ELSE pc = "panic"

C5_Witness ==
    /\ op.name = "value"
    /\ pc = "ok"
    /\ arr.offsets.offset > 0
    /\ Len(res.data) > 0
    /\ res.data[1] > 1

\* C6: slicing law: a ListArray sliced with (offset, length), where
\* offset + length <= len(), has len() == length and
\* sliced.value(i) == original.value(i + offset) for all i in [0, length);
\* hence slicing the result with (o2, l2) equals slicing the original with
\* (offset + o2, l2).
C6_SlicingLaw ==
    [][ (pc = "ok" /\ IsSliceOp(op') /\ InRange(arr, op')) =>
          /\ pc' = "ok"
          /\ len(arr') = op'.length
          /\ \A i \in 0..(op'.length - 1) :
                value(arr', i) = value(arr, i + op'.offset)
          /\ \A o2 \in 0..op'.length : \A l2 \in 0..(op'.length - o2) :
                slice(arr', o2, l2) = slice(arr, op'.offset + o2, l2) ]_vars

C6_Witness ==
    /\ pc = "ok"
    /\ IsSliceOp(op)
    /\ op.length > 0
    /\ arr.offsets.offset > op.offset
    /\ Len(value(arr, 0)[2].data) > 0

\* C7: slice(offset, length) panics exactly when offset + length > len();
\* a slice with offset + length == len() succeeds, and a panicking call
\* leaves offsets and validity unmodified.
C7_SlicePanicsIffOutOfRange ==
    [][ (pc = "ok" /\ op'.name = "slice") =>
          /\ (pc' = "panic") = (op'.offset + op'.length > len(arr))
          /\ (op'.offset + op'.length <= len(arr)) => pc' = "ok"
          /\ pc' = "panic" => (arr'.offsets = arr.offsets /\ arr'.validity = arr.validity) ]_vars

\* C7 holds of every call whose offset + length does not overflow usize
C7_SlicePanicsIffOutOfRangeNoOverflow ==
    [][ (pc = "ok" /\ op'.name = "slice" /\ op'.offset + op'.length <= UsizeMax) =>
          /\ (pc' = "panic") = (op'.offset + op'.length > len(arr))
          /\ pc' = "panic" => (arr'.offsets = arr.offsets /\ arr'.validity = arr.validity) ]_vars

\* C8: in every ListArray built by try_new / new / new_null / new_empty and
\* then sliced in range any number of times: a present validity has len()
\* bits, len() is the number of offsets minus one, the offsets are
\* non-decreasing and the last offset does not exceed values.len().
C8_ArrayInvariant ==
    pc = "ok" =>
        /\ arr.validity.is_some =>
              /\ arr.validity.bitmap.length = len(arr)
              /\ Len(View(arr.validity.bitmap)) = len(arr)
              /\ arr.validity.bitmap.unset_bits = CountUnset(View(arr.validity.bitmap))
        /\ Len(Offs(arr)) >= 1
        /\ len(arr) = Len(Offs(arr)) - 1
        /\ IsSorted(Offs(arr))
        /\ Offs(arr)[1] >= 0
        /\ Offs(arr)[Len(Offs(arr))] <= Len(arr.values.data)

C8_Witness ==
    /\ pc = "ok"
    /\ IsSliceOp(op)
    /\ arr.validity.is_some
    /\ arr.offsets.offset > 0
    /\ len(arr) > 0
    /\ Offs(arr)[Len(Offs(arr))] < Len(arr.values.data)

\* C9: slicing changes only the offsets window and the validity window:
\* data_type and the child values are unchanged, the backing buffers are the
\* same, and the original array (a clone that shares the buffers) still
\* shows its offsets, validity, values and len().
C9_SliceFrame ==
    [][ (pc = "ok" /\ IsSliceOp(op') /\ pc' = "ok") =>
          /\ arr'.data_type = arr.data_type
          /\ arr'.values = arr.values
          /\ arr'.validity.is_some = arr.validity.is_some
          /\ arr'.offsets.buf = arr.offsets.buf
          /\ arr'.validity.bitmap.buf = arr.validity.bitmap.buf
          /\ View([arr.offsets EXCEPT !.buf = arr'.offsets.buf]) = Offs(arr)
          /\ View([arr.validity.bitmap EXCEPT !.buf = arr'.validity.bitmap.buf])
               = View(arr.validity.bitmap) ]_vars

C9_Witness ==
    /\ pc = "ok"
    /\ op.name = "slice"
    /\ op.offset > 0
    /\ arr.validity.is_some
    /\ arr.offsets.length < Len(arr.offsets.buf)
    /\ Len(arr.values.data) > 0

\* C10: new_null(data_type, length) yields an array with len() == length, a
\* validity of exactly length bits all unset, length + 1 offsets all zero, an
\* empty child array and value(i).len() == 0 for every i < length; new_empty
\* yields len() == 0 with no validity.
C10_NewNullNewEmpty ==
    /\ op.name \in {"new_null", "new_empty"} => (pc = "ok") = ArgListWidthOk
    /\ (op.name = "new_null" /\ pc = "ok") =>
          /\ len(arr) = op.length
          /\ arr.validity.is_some
          /\ View(arr.validity.bitmap) = [i \in 1..op.length |-> FALSE]
          /\ Offs(arr) = [i \in 1..(op.length + 1) |-> 0]
          /\ arr.values.data = <<>>
          /\ arr.data_type = args.data_type
          /\ \A i \in 0..(op.length - 1) :
                value(arr, i)[1] = "ok" /\ Len(value(arr, i)[2].data) = 0
    /\ (op.name = "new_empty" /\ pc = "ok") =>
          /\ len(arr) = 0
          /\ ~arr.validity.is_some
          /\ arr.values.data = <<>>
          /\ arr.data_type = args.data_type

C10_Witness ==
    /\ op.name = "new_null"
    /\ pc = "ok"
    /\ op.length = MaxLen
    /\ arr.validity.bitmap.unset_bits = MaxLen

\* C16: slicing never changes whether a validity bitmap is attached: an
\* array with validity keeps a validity after slice, sliced or
\* slice_unchecked, also when the sliced window has no unset bit, and an
\* array without validity gets none.
C16_SliceKeepsValidityAttached ==
    [][ (pc = "ok" /\ IsSliceOp(op') /\ pc' = "ok") =>
          /\ arr.validity.is_some =>
                /\ arr'.validity.is_some
                /\ arr'.validity.bitmap.length = op'.length
                /\ arr'.validity.bitmap.unset_bits
                     = CountUnset(View(arr'.validity.bitmap))
          /\ ~arr.validity.is_some => arr'.validity = None ]_vars

C16_Witness ==
    /\ pc = "ok"
    /\ IsSliceOp(op)
    /\ op.length > 0
    /\ arr.validity.is_some
    /\ arr.validity.bitmap.unset_bits = 0
    /\ \E i \in 1..Len(arr.validity.bitmap.buf) : ~arr.validity.bitmap.buf[i]

(* ================= conversion to and from arrow-rs ==================== *)
\* ListArray::get_child_field: the child Field (name, data type, nullability)
\* of the logical type
get_child_field(dt) ==
    [name |-> to_logical_type(dt).name,
     data_type |-> to_logical_type(dt).child,
     is_nullable |-> to_logical_type(dt).is_nullable]

\* arrow_array::GenericListArray::new(field, offsets, values, nulls): the
\* array made of the four parts, or a panic when they do not fit
GenericListArray_new(field, offsets, values, nulls) ==
    IF \/ offsets[Len(offsets)] > Len(values.data)
       \/ (nulls.is_some /\ Len(nulls.bits) # Len(offsets) - 1)
       \/ Leaf(field.data_type) # values.data_type
    THEN <<"panic", [field |-> field, offsets |-> <<0>>, values |-> values,
                     nulls |-> [is_some |-> FALSE, bits |-> <<>>]]>>
    ELSE <<"ok", [field |-> field, offsets |-> offsets, values |-> values,
                  nulls |-> nulls]>>

\* From<ListArray<O>> for arrow_array::GenericListArray<O>: the child field
\* is rebuilt under the name "item"; offsets, values and validity are
\* converted as they are seen through their windows
to_arrow(a) ==
    LET field == get_child_field(a.data_type)
    IN GenericListArray_new(
         [name |-> "item", data_type |-> field.data_type,
          is_nullable |-> field.is_nullable],
         View(a.offsets),
         a.values,
         IF a.validity.is_some
         THEN [is_some |-> TRUE, bits |-> View(a.validity.bitmap)]
         ELSE [is_some |-> FALSE, bits |-> <<>>])

\* From<arrow_array::GenericListArray<O>> for ListArray<O>: into_parts, the
\* List / LargeList type over the converted field, then Self::new
from_arrow(large, array1) ==
    try_new(large,
            ListOf(IF large THEN "LargeList" ELSE "List", array1.field.name,
                   array1.field.data_type, array1.field.is_nullable),
            OffsetsFrom(array1.offsets),
            array1.values,
            IF array1.nulls.is_some THEN Some(BitmapFrom(array1.nulls.bits)) ELSE None)

\* a ListArray is converted to arrow-rs and back
RoundTrip ==
    /\ pc = "ok"
    /\ LET g == to_arrow(arr)
           r == from_arrow(IS_LARGE, g[2])
       IN /\ pc' = IF g[1] = "ok" /\ r[1] = "Ok" THEN "converted" ELSE "panic"
          /\ arr' = IF g[1] = "ok" /\ r[1] = "Ok" THEN r[2] ELSE arr
    /\ op' = [NoOp EXCEPT !.name = "roundtrip"]
    /\ res' = NoRes
    /\ UNCHANGED <<IS_LARGE, args, err, page, nat>>

NextArrow == Next \/ RoundTrip

SpecArrow == Init /\ [][NextArrow]_vars

(* ------------------- claims about the arrow conversion ---------------- *)
\* offsets, validity pattern and values of the two arrays are equal
SameContents(a, b) ==
    /\ Offs(a) = Offs(b)
    /\ a.validity.is_some = b.validity.is_some
    /\ View(a.validity.bitmap) = View(b.validity.bitmap)
    /\ a.values = b.values

\* C15: a ListArray converted to arrow_array::GenericListArray and back is
\* equal to the original in data type (including the child field), offsets,
\* validity pattern and values, for any child field name and nullability,
\* sliced or not.
C15_RoundTripEqual ==
    [][ op'.name = "roundtrip" =>
          /\ pc' = "converted"
          /\ arr'.data_type = arr.data_type
          /\ SameContents(arr', arr) ]_vars

\* C15, for what the conversion keeps: the round trip never panics,
\* offsets, validity pattern and values are equal, and the data type is the
\* list type of the same width over the field "item" of the original child
\* type and nullability.
C15_RoundTripEqualUpToFieldName ==
    [][ op'.name = "roundtrip" =>
          /\ pc' = "converted"
          /\ SameContents(arr', arr)
          /\ arr'.data_type =
                [to_logical_type(arr.data_type) EXCEPT !.name = "item"] ]_vars

(* ====================== the page encoder (binary.rs) ================== *)
\* largest number of slots of the BinaryArray handed to the encoder
MaxSlots == 2
\* largest number of bytes of one binary value
MaxBytes == 2

\* the list-array variables while another part of the library is exercised
ListIdle ==
    /\ IS_LARGE = FALSE
    /\ args = NoArray
    /\ pc = "none"
    /\ err = "Ok"
    /\ arr = NoArray
    /\ op = NoOp
    /\ res = NoRes

\* the bytes a binary value is made of
ByteInputs == {7, 200}

\* BinaryArray<O>: one byte string per slot (a null slot has bytes too) and
\* the optional validity
BinaryArrays ==
    { [values |-> v, validity |-> m] :
        v \in SeqsUpTo(SeqsUpTo(ByteInputs, 0, MaxBytes), 0, MaxSlots),
        m \in ValidityInputs }

\* the arrays the encoder can be given: the validity has one bit per slot
BinaryArrayInputs ==
    { a \in BinaryArrays : a.validity.is_some => a.validity.bitmap.length = Len(a.values) }

\* CompressionCodec: none, one that is compiled in, one that is not
CompressionInputs == {"Uncompressed", "Snappy", "Lzo"}

\* u32::to_le_bytes(n as u32)
u32_to_le_bytes(n) == [k \in 1..4 |-> (n \div (256 ^ (k - 1))) % 256]

\* ULEB128 of n
RECURSIVE uleb128(_)
uleb128(n) ==
    IF n < 128 THEN <<n>> ELSE <<128 + (n % 128)>> \o uleb128(n \div 128)

\* bit j (from 0) of the bit stream, FALSE past its end
BitAt(bits, j) == j + 1 <= Len(bits) /\ bits[j + 1]

\* 8 bits of the stream from bit 8 * g on, packed least significant bit first
RECURSIVE PackedByte(_, _, _)
PackedByte(bits, g, j) ==
    IF j = 8 THEN 0
    ELSE (IF BitAt(bits, 8 * g + j) THEN 2 ^ j ELSE 0) + PackedByte(bits, g, j + 1)

\* the bit-packed run of the hybrid RLE encoding: header (groups << 1 | 1)
\* and one byte per group of 8 bits
encode_bool(bits) ==
    LET groups == (Len(bits) + 7) \div 8
    IN uleb128(2 * groups + 1) \o [g \in 1..groups |-> PackedByte(bits, g - 1, 0)]

\* utils::write_def_levels(is_optional, validity, len): nothing for a
\* required column; else the 4-byte length and the encoded presence bits of
\* all len slots (all set when there is no validity)
write_def_levels(is_optional, validity, length) ==
    IF ~is_optional THEN <<>>
    ELSE LET bits == IF validity.is_some THEN View(validity.bitmap)
                     ELSE [i \in 1..length |-> TRUE]
         IN u32_to_le_bytes(Len(encode_bool(bits))) \o encode_bool(bits)

\* BinaryArray::iter: Some(value) for a valid slot, None for a null slot
BinaryArray_iter(array) ==
    [i \in 1..Len(array.values) |->
        IF array.validity.is_some /\ ~View(array.validity.bitmap)[i]
        THEN [is_some |-> FALSE, v |-> <<>>]
        ELSE [is_some |-> TRUE, v |-> array.values[i]]]

\* BinaryArray::values_iter: the bytes of every slot
BinaryArray_values_iter(array) == array.values

\* the closure of line 25: append length and bytes of a present value
RECURSIVE append_present(_, _)
append_present(buffer, items) ==
    IF items = <<>> THEN buffer
    ELSE append_present(
           IF Head(items).is_some
           THEN buffer \o u32_to_le_bytes(Len(Head(items).v)) \o Head(items).v
           ELSE buffer,
           Tail(items))

\* the closure of line 34: append length and bytes of every value
RECURSIVE append_all(_, _)
append_all(buffer, items) ==
    IF items = <<>> THEN buffer
    ELSE append_all(buffer \o u32_to_le_bytes(Len(Head(items))) \o Head(items), Tail(items))

\* variant: definition levels are written only when the array has a validity
levels_and_values_when_validity(array, is_optional) ==
    LET buffer == write_def_levels(is_optional /\ array.validity.is_some,
                                   array.validity, Len(array.values))
    IN IF is_optional
       THEN append_present(buffer, BinaryArray_iter(array))
       ELSE append_all(buffer, BinaryArray_values_iter(array))

\* lines 19-40: the buffer of levels and values before compression
levels_and_values(array, is_optional) ==
    LET buffer == write_def_levels(is_optional, array.validity, Len(array.values))
    IN IF is_optional
       THEN append_present(buffer, BinaryArray_iter(array))
       ELSE append_all(buffer, BinaryArray_values_iter(array))

\* create_codec: <<"Ok", has_codec>> or <<"Err", _>> for a codec that cannot
\* be instantiated
create_codec(compression) ==
    IF compression = "Uncompressed" THEN <<"Ok", FALSE>>
    ELSE IF compression = "Snappy" THEN <<"Ok", TRUE>>
    ELSE <<"Err", FALSE>>

\* codec.compress(buffer, tmp): the codec's output, a frame byte and the block
compress(compression, buffer) == <<Len(compression)>> \o buffer

NoHeader ==
    [num_values |-> 0, encoding |-> "-", definition_level_encoding |-> "-",
     repetition_level_encoding |-> "-", statistics |-> "-"]

PageErr(e) ==
    [ok |-> FALSE, err |-> e, header |-> NoHeader, buffer |-> <<>>,
     compression |-> "-", uncompressed_page_size |-> 0]

\* lines 54-69: PageHeader::V1 and CompressedPage::new
CompressedPage_new(array, buffer, compression, uncompressed_page_size) ==
    [ok |-> TRUE, err |-> "-",
     header |-> [num_values |-> Len(array.values), encoding |-> "Plain",
                 definition_level_encoding |-> "Rle",
                 repetition_level_encoding |-> "Rle", statistics |-> "None"],
     buffer |-> buffer, compression |-> compression,
     uncompressed_page_size |-> uncompressed_page_size]

\* variant: the uncompressed size is taken from the buffer after compression
array_to_page_v1_size_after_compression(array, compression, is_optional, compress_ok) ==
    LET buffer == levels_and_values(array, is_optional)
        codec == create_codec(compression)
    IN IF codec[1] = "Err" THEN PageErr("create_codec")
       ELSE IF codec[2]
       THEN IF ~compress_ok THEN PageErr("compress")
            ELSE CompressedPage_new(array, compress(compression, buffer), compression,
                                    Len(compress(compression, buffer)))
       ELSE CompressedPage_new(array, buffer, compression, Len(buffer))

\* variant: a codec that cannot be instantiated is treated as no codec
array_to_page_v1_codec_error_ignored(array, compression, is_optional, compress_ok) ==
    LET buffer == levels_and_values(array, is_optional)
        uncompressed_page_size == Len(buffer)
        codec == create_codec(compression)
    IN IF codec[1] = "Ok" /\ codec[2]
       THEN IF ~compress_ok THEN PageErr("compress")
            ELSE CompressedPage_new(array, compress(compression, buffer),
                                    compression, uncompressed_page_size)
       ELSE CompressedPage_new(array, buffer, compression, uncompressed_page_size)

\* array_to_page_v1; compress_ok tells whether the codec compresses the
\* buffer without an error
array_to_page_v1(array, compression, is_optional, compress_ok) ==
    LET buffer == levels_and_values(array, is_optional)
        uncompressed_page_size == Len(buffer)
        codec == create_codec(compression)
    IN IF codec[1] = "Err" THEN PageErr("create_codec")
       ELSE IF codec[2]
       THEN IF ~compress_ok THEN PageErr("compress")
            ELSE CompressedPage_new(array, compress(compression, buffer),
                                    compression, uncompressed_page_size)
       ELSE CompressedPage_new(array, buffer, compression, uncompressed_page_size)

InitPage ==
    /\ ListIdle
    /\ nat = NoNat
    /\ page \in [pc : {"start"}, array : BinaryArrayInputs,
                 compression : CompressionInputs, is_optional : BOOLEAN,
                 compress_ok : BOOLEAN, buffer : {<<>>}, result : {PageErr("-")}]

ArrayToPageV1 ==
    /\ page.pc = "start"
    /\ page' = [page EXCEPT
                  !.pc = "done",
                  !.buffer = levels_and_values(page.array, page.is_optional),
                  !.result = array_to_page_v1(page.array, page.compression,
                                              page.is_optional, page.compress_ok)]
    /\ UNCHANGED <<IS_LARGE, args, pc, err, arr, op, res, nat>>

NextPage == ArrayToPageV1

SpecPage == InitPage /\ [][NextPage]_vars

(* ---------------------- claims about the page encoder ----------------- *)
\* slot i (from 1) of the array holds a value
IsPresent(array, i) ==
    ~array.validity.is_some \/ View(array.validity.bitmap)[i]

\* PLAIN encoding of the slots from i on: 4-byte little-endian length and the
\* bytes, of every slot (all = TRUE) or of the present slots only
RECURSIVE PlainFrom(_, _, _)
PlainFrom(array, i, all) ==
    IF i > Len(array.values) THEN <<>>
    ELSE (IF all \/ IsPresent(array, i)
          THEN <<Len(array.values[i]), 0, 0, 0>> \o array.values[i]
          ELSE <<>>) \o PlainFrom(array, i + 1, all)

\* the length the first four bytes of the buffer announce
LevelsLen(buffer) ==
    buffer[1] + 256 * buffer[2] + 65536 * buffer[3] + 16777216 * buffer[4]

\* bit j (from 0) of the bit-packed bytes that follow the run header
PackedBit(enc, j) == (enc[2 + (j \div 8)] \div (2 ^ (j % 8))) % 2 = 1

PageDone == page.pc = "done"

\* C11: the value section (the buffer after the definition levels) is the
\* PLAIN encoding of the present values only, null slots contributing
\* nothing, for either value of is_optional.
C11_ValuesArePresentOnly ==
    PageDone =>
      page.buffer =
        write_def_levels(page.is_optional, page.array.validity, Len(page.array.values))
          \o PlainFrom(page.array, 1, FALSE)

\* C12: the buffer starts with a definition-level section exactly when
\* is_optional: a 4-byte length, a bit-packed run header and one presence bit
\* per slot (all set without validity); a required column has no section and
\* the buffer is the values alone.
C12_DefLevelsIffOptional ==
    PageDone =>
      IF page.is_optional
      THEN /\ Len(page.buffer) >= 4
           /\ LET n   == Len(page.array.values)
                  l   == LevelsLen(page.buffer)
                  enc == SubSeq(page.buffer, 5, 4 + l)
              IN /\ Len(page.buffer) >= 4 + l
                 /\ l = 1 + ((n + 7) \div 8)
                 /\ enc[1] = 2 * ((n + 7) \div 8) + 1
                 /\ \A i \in 1..n : PackedBit(enc, i - 1) = IsPresent(page.array, i)
                 /\ SubSeq(page.buffer, 5 + l, Len(page.buffer))
                      \in {PlainFrom(page.array, 1, all) : all \in BOOLEAN}
      ELSE page.buffer \in {PlainFrom(page.array, 1, all) : all \in BOOLEAN}

C12_Witness ==
    /\ PageDone
    /\ page.is_optional
    /\ ~page.array.validity.is_some
    /\ Len(page.array.values) = MaxSlots

\* C13: the recorded uncompressed size is the buffer length before
\* compression; without a codec the payload is the buffer itself, with a
\* codec it is the codec's output; the header carries array.len(), PLAIN,
\* RLE, RLE and no statistics.
C13_SizeBeforeCompression ==
    (PageDone /\ page.result.ok) =>
      /\ page.result.uncompressed_page_size = Len(page.buffer)
      /\ page.result.compression = page.compression
      /\ page.compression = "Uncompressed" =>
           /\ page.result.buffer = page.buffer
           /\ Len(page.result.buffer) = page.result.uncompressed_page_size
      /\ page.compression # "Uncompressed" =>
           page.result.buffer = compress(page.compression, page.buffer)
      /\ page.result.header =
           [num_values |-> Len(page.array.values), encoding |-> "Plain",
            definition_level_encoding |-> "Rle",
            repetition_level_encoding |-> "Rle", statistics |-> "None"]

C13_Witness ==
    /\ PageDone
    /\ page.result.ok
    /\ page.compression = "Snappy"
    /\ Len(page.array.values) > 0
    /\ Len(page.result.buffer) # page.result.uncompressed_page_size

ByteBits == 2
SizeI32 == 2
SizeI64 == 2 * SizeI32
SizeI128 == 4 * SizeI32

ByteMod == 2 ^ ByteBits

\* two's-complement integers of n bytes
IntMod(n) == 2 ^ (n * ByteBits)
IntMin(n) == -(IntMod(n) \div 2)
IntMax(n) == (IntMod(n) \div 2) - 1
Unsigned(x, n) == x % IntMod(n)
Signed(u, n) == IF u >= IntMod(n) \div 2 THEN u - IntMod(n) ELSE u

Reverse(b) == [k \in 1..Len(b) |-> b[Len(b) + 1 - k]]

RECURSIVE LeValue(_)
LeValue(b) == IF b = <<>> THEN 0 ELSE Head(b) + ByteMod * LeValue(Tail(b))

\* the conversions of the primitive integers the native_type! macro
\* delegates to
int_to_le_bytes(x, n) ==
    [k \in 1..n |-> (Unsigned(x, n) \div (ByteMod ^ (k - 1))) % ByteMod]
int_to_be_bytes(x, n) == Reverse(int_to_le_bytes(x, n))
int_from_le_bytes(b) == Signed(LeValue(b), Len(b))
int_from_be_bytes(b) == int_from_le_bytes(Reverse(b))

\* -x on a primitive integer of n bytes: the outcomes <<pc, value>>; the
\* negation of the minimum overflows, which panics with overflow checks and
\* wraps without them
int_neg(x, n) ==
    IF x = IntMin(n) THEN {<<"panic", x>>, <<"ok", x>>} ELSE {<<"ok", -x>>}

\* impl NativeType for days_ms: (days, milliseconds)
days_ms_to_le_bytes(x) ==
    int_to_le_bytes(x[1], SizeI32) \o int_to_le_bytes(x[2], SizeI32)
days_ms_to_be_bytes(x) ==
    int_to_be_bytes(x[1], SizeI32) \o int_to_be_bytes(x[2], SizeI32)
days_ms_from_le_bytes(bytes) ==
    << int_from_le_bytes(SubSeq(bytes, 1, SizeI32)),
       int_from_le_bytes(SubSeq(bytes, SizeI32 + 1, 2 * SizeI32)) >>
days_ms_from_be_bytes(bytes) ==
    << int_from_be_bytes(SubSeq(bytes, 1, SizeI32)),
       int_from_be_bytes(SubSeq(bytes, SizeI32 + 1, 2 * SizeI32)) >>

\* impl NativeType for months_days_ns: (months, days, nanoseconds)
months_days_ns_to_le_bytes(x) ==
    int_to_le_bytes(x[1], SizeI32) \o int_to_le_bytes(x[2], SizeI32)
      \o int_to_le_bytes(x[3], SizeI64)
months_days_ns_to_be_bytes(x) ==
    int_to_be_bytes(x[1], SizeI32) \o int_to_be_bytes(x[2], SizeI32)
      \o int_to_be_bytes(x[3], SizeI64)
months_days_ns_from_le_bytes(bytes) ==
    << int_from_le_bytes(SubSeq(bytes, 1, SizeI32)),
       int_from_le_bytes(SubSeq(bytes, SizeI32 + 1, 2 * SizeI32)),
       int_from_le_bytes(SubSeq(bytes, 2 * SizeI32 + 1, 2 * SizeI32 + SizeI64)) >>
months_days_ns_from_be_bytes(bytes) ==
    << int_from_be_bytes(SubSeq(bytes, 1, SizeI32)),
       int_from_be_bytes(SubSeq(bytes, SizeI32 + 1, 2 * SizeI32)),
       int_from_be_bytes(SubSeq(bytes, 2 * SizeI32 + 1, 2 * SizeI32 + SizeI64)) >>

\* impl NativeType for i256: x is the pair of words (hi, lo) of into_words.
\* to_*_bytes write the high word into the first half
i256_to_le_bytes(x) ==
    int_to_le_bytes(x[1], SizeI128) \o int_to_le_bytes(x[2], SizeI128)
i256_to_be_bytes(x) ==
    int_to_be_bytes(x[1], SizeI128) \o int_to_be_bytes(x[2], SizeI128)
\* (a, b) = bytes.split_at(16); from_words(a, b)
i256_from_be_bytes(bytes) ==
    LET a == SubSeq(bytes, 1, SizeI128)
        b == SubSeq(bytes, SizeI128 + 1, 2 * SizeI128)
    IN << int_from_be_bytes(a), int_from_be_bytes(b) >>
\* (b, a) = bytes.split_at(16); from_words(a, b)
i256_from_le_bytes(bytes) ==
    LET b == SubSeq(bytes, 1, SizeI128)
        a == SubSeq(bytes, SizeI128 + 1, 2 * SizeI128)
    IN << int_from_le_bytes(a), int_from_le_bytes(b) >>

\* impl Neg for days_ms: Self::new(-days, -milliseconds)
days_ms_neg(x) ==
    { << IF r1[1] = "ok" /\ r2[1] = "ok" THEN "ok" ELSE "panic", <<r1[2], r2[2]>> >> :
        r1 \in int_neg(x[1], SizeI32), r2 \in int_neg(x[2], SizeI32) }

\* impl Neg for months_days_ns: Self::new(-months, -days, -ns)
months_days_ns_neg(x) ==
    { << IF r1[1] = "ok" /\ r2[1] = "ok" /\ r3[1] = "ok" THEN "ok" ELSE "panic",
         <<r1[2], r2[2], r3[2]>> >> :
        r1 \in int_neg(x[1], SizeI32), r2 \in int_neg(x[2], SizeI32),
        r3 \in int_neg(x[3], SizeI64) }

\* impl Neg for i256: (a, b) = into_words(); from_words(-a, b)
i256_neg(x) ==
    { << r[1], <<r[2], x[2]>> >> : r \in int_neg(x[1], SizeI128) }

\* the NativeType implementations modelled; the primitive integers go through
\* native_type!
NativeTypes == {"i32", "i64", "i128", "days_ms", "months_days_ns", "i256"}
NegTypes == {"days_ms", "months_days_ns", "i256"}

PrimitiveSize(ty) ==
    IF ty = "i32" THEN SizeI32 ELSE IF ty = "i64" THEN SizeI64 ELSE SizeI128

\* NativeType::to_le_bytes
to_le_bytes(ty, x) ==
    IF ty = "days_ms" THEN days_ms_to_le_bytes(x)
    ELSE IF ty = "months_days_ns" THEN months_days_ns_to_le_bytes(x)
    ELSE IF ty = "i256" THEN i256_to_le_bytes(x)
    ELSE int_to_le_bytes(x[1], PrimitiveSize(ty))

\* NativeType::to_be_bytes
to_be_bytes(ty, x) ==
    IF ty = "days_ms" THEN days_ms_to_be_bytes(x)
    ELSE IF ty = "months_days_ns" THEN months_days_ns_to_be_bytes(x)
    ELSE IF ty = "i256" THEN i256_to_be_bytes(x)
    ELSE int_to_be_bytes(x[1], PrimitiveSize(ty))

\* NativeType::from_le_bytes
from_le_bytes(ty, bytes) ==
    IF ty = "days_ms" THEN days_ms_from_le_bytes(bytes)
    ELSE IF ty = "months_days_ns" THEN months_days_ns_from_le_bytes(bytes)
    ELSE IF ty = "i256" THEN i256_from_le_bytes(bytes)
    ELSE << int_from_le_bytes(bytes) >>

\* NativeType::from_be_bytes
from_be_bytes(ty, bytes) ==
    IF ty = "days_ms" THEN days_ms_from_be_bytes(bytes)
    ELSE IF ty = "months_days_ns" THEN months_days_ns_from_be_bytes(bytes)
    ELSE IF ty = "i256" THEN i256_from_be_bytes(bytes)
    ELSE << int_from_be_bytes(bytes) >>

\* Neg::neg
neg(ty, x) ==
    IF ty = "days_ms" THEN days_ms_neg(x)
    ELSE IF ty = "months_days_ns" THEN months_days_ns_neg(x)
    ELSE i256_neg(x)

\* the integers of n bytes tried: the extremes, the values around zero and a
\* value whose bytes all differ from their mirror image
IntInputs(n) ==
    { IntMin(n), IntMin(n) + 1, -1, 0, 1, 2, IntMax(n),
      int_from_le_bytes([k \in 1..n |-> k % ByteMod]) }

ValueInputs(ty) ==
    IF ty = "days_ms"
    THEN { <<d, ms>> : d \in IntInputs(SizeI32), ms \in IntInputs(SizeI32) }
    ELSE IF ty = "months_days_ns"
    THEN { <<m, d, ns>> : m \in IntInputs(SizeI32), d \in IntInputs(SizeI32),
                          ns \in IntInputs(SizeI64) }
    ELSE IF ty = "i256"
    THEN { <<hi, lo>> : hi \in IntInputs(SizeI128), lo \in IntInputs(SizeI128) }
    ELSE { <<v>> : v \in IntInputs(PrimitiveSize(ty)) }

NativeInputs ==
    UNION { { [pc |-> "start", ty |-> ty, x |-> x, bytes |-> <<>>,
               y |-> <<>>, z |-> <<>>] : x \in ValueInputs(ty) } : ty \in NativeTypes }

InitNative ==
    /\ ListIdle
    /\ page = NoPage
    /\ nat \in NativeInputs

ListAndPageIdle == UNCHANGED <<IS_LARGE, args, pc, err, arr, op, res, page>>

ToLeBytes ==
    /\ nat.pc = "start"
    /\ nat' = [nat EXCEPT !.pc = "le_bytes", !.bytes = to_le_bytes(nat.ty, nat.x)]
    /\ ListAndPageIdle

FromLeBytes ==
    /\ nat.pc = "le_bytes"
    /\ nat' = [nat EXCEPT !.pc = "from_le", !.y = from_le_bytes(nat.ty, nat.bytes)]
    /\ ListAndPageIdle

ToBeBytes ==
    /\ nat.pc = "start"
    /\ nat' = [nat EXCEPT !.pc = "be_bytes", !.bytes = to_be_bytes(nat.ty, nat.x)]
    /\ ListAndPageIdle

FromBeBytes ==
    /\ nat.pc = "be_bytes"
    /\ nat' = [nat EXCEPT !.pc = "from_be", !.y = from_be_bytes(nat.ty, nat.bytes)]
    /\ ListAndPageIdle

\* -x, and -(-x) on the result
Neg ==
    /\ nat.ty \in NegTypes
    /\ \/ /\ nat.pc = "start"
          /\ \E r \in neg(nat.ty, nat.x) :
               nat' = [nat EXCEPT !.pc = IF r[1] = "ok" THEN "neg" ELSE "neg_panic",
                                  !.y = r[2]]
       \/ /\ nat.pc = "neg"
          /\ \E r \in neg(nat.ty, nat.y) :
               nat' = [nat EXCEPT !.pc = IF r[1] = "ok" THEN "negneg" ELSE "negneg_panic",
                                  !.z = r[2]]
    /\ ListAndPageIdle

NextNative == ToLeBytes \/ FromLeBytes \/ ToBeBytes \/ FromBeBytes \/ Neg

SpecNative == InitNative /\ [][NextNative]_vars

(* ---------------------- claims about native types --------------------- *)
\* C17: for every NativeType value x, from_le_bytes(to_le_bytes(x)) == x and
\* from_be_bytes(to_be_bytes(x)) == x.
C17_BytesRoundTrip ==
    nat.pc \in {"from_le", "from_be"} => nat.y = nat.x

\* C17, for what the conversions do: the big-endian round trip is the
\* identity for every type and the little-endian one for every type but
\* i256, where it exchanges the two words.
C17_BytesRoundTripButI256Le ==
    /\ nat.pc = "from_be" => nat.y = nat.x
    /\ (nat.pc = "from_le" /\ nat.ty # "i256") => nat.y = nat.x
    /\ (nat.pc = "from_le" /\ nat.ty = "i256") => nat.y = <<nat.x[2], nat.x[1]>>

\* x is a 256-bit value whose negation is representable (x is not the minimum)
NegRepresentable(x) == ~(x[1] = IntMin(SizeI128) /\ x[2] = 0)

\* v + x == 0 as two's-complement integers of two words (hi, lo)
SumIsZero(v, x) ==
    LET lo == Unsigned(v[2], SizeI128) + Unsigned(x[2], SizeI128)
        hi == Unsigned(v[1], SizeI128) + Unsigned(x[1], SizeI128) + (lo \div IntMod(SizeI128))
    IN lo % IntMod(SizeI128) = 0 /\ hi % IntMod(SizeI128) = 0

\* C18: for every i256 x built from words (hi, lo) whose negation is
\* representable, -x is the value v with v + x == 0, and -(-x) == x.
C18_NegIsArithmeticNegation ==
    (nat.ty = "i256" /\ NegRepresentable(nat.x)) =>
      /\ nat.pc # "neg_panic"
      /\ nat.pc \in {"neg", "negneg", "negneg_panic"} => SumIsZero(nat.y, nat.x)
      /\ nat.pc # "negneg_panic"
      /\ nat.pc = "negneg" => nat.z = nat.x

\* C18, for what the code does: only the high word is negated, which is the
\* arithmetic negation exactly when the low word is zero.
C18_NegNegatesHighWordOnly ==
    (nat.ty = "i256" /\ nat.pc = "neg") =>
      /\ nat.y[2] = nat.x[2]
      /\ nat.y[1] \in {-nat.x[1], nat.x[1]}
      /\ (NegRepresentable(nat.x) /\ nat.x[2] = 0) => SumIsZero(nat.y, nat.x)
====
